---------------------------- MODULE Spec2Model ----------------------------
(***************************************************************************)
(* A model of the js-types validator combinators of src/index.js.         *)
(*                                                                         *)
(* JavaScript values are records tagged by the field k.  Numbers are kept  *)
(* in tenths (Num(15) is 1.5), strings are sequences of one-character      *)
(* strings, objects carry their own enumerable fields and arrays their     *)
(* items.  A validator instance lives in the heap and is referred to by    *)
(* its index, as a JavaScript object is referred to by reference.          *)
(***************************************************************************)
EXTENDS Integers, Sequences, FiniteSets, TLC

VARIABLES heap, calls, last

vars == <<heap, calls, last>>

(***************************************************************************)
(* Bounds of the model.                                                    *)
(***************************************************************************)
\* largest bound (in units) handed to minLength / maxLength / min / max
MaxBound == 2
\* configuration calls made on a single leaf validator
MaxCallsLeaf == 3
\* configuration calls made on the validators of a composite tree
MaxCallsTree == 2

(***************************************************************************)
(* JavaScript values.                                                      *)
(***************************************************************************)
Undefined == [k |-> "undefined"]
Null == [k |-> "null"]
NaN == [k |-> "NaN"]
Infinity == [k |-> "Infinity"]
NegInfinity == [k |-> "-Infinity"]
Num(t) == [k |-> "number", tenths |-> t]
Str(cs) == [k |-> "string", cs |-> cs]
Bool(b) == [k |-> "boolean", b |-> b]
Sym(d) == [k |-> "symbol", description |-> d]
Arr(items) == [k |-> "array", items |-> items]
Obj(fields) == [k |-> "object", fields |-> fields]
\* a reference to the validator instance heap[id]
Ref(id) == [k |-> "validator", id |-> id]

NumberKinds == {"number", "NaN", "Infinity", "-Infinity"}

\* the typeof operator
TypeOf(v) ==
  CASE v.k \in NumberKinds -> "number"
    [] v.k \in {"null", "array", "object", "validator"} -> "object"
    [] OTHER -> v.k

\* Array.isArray
IsArray(v) == v.k = "array"

Digit == <<"0", "1", "2", "3", "4", "5", "6", "7", "8", "9">>

IsDigit(c) == \E d \in 1..10 : Digit[d] = c

DigitValue(c) == (CHOOSE d \in 1..10 : Digit[d] = c) - 1

RECURSIVE NatToString(_)
\* the decimal digits of a natural number
NatToString(n) ==
  IF n < 10 THEN <<Digit[n + 1]>>
  ELSE NatToString(n \div 10) \o <<Digit[(n % 10) + 1]>>

\* Number.prototype.toString of a finite number held in tenths
NumberToString(t) ==
  LET a == IF t < 0 THEN -t ELSE t
      whole == NatToString(a \div 10)
      frac == IF a % 10 = 0 THEN <<>> ELSE <<".", Digit[(a % 10) + 1]>>
  IN (IF t < 0 THEN <<"-">> ELSE <<>>) \o whole \o frac

\* outcome of an operation that may throw
Return(v) == [threw |-> FALSE, v |-> v]
Throw(name, about) == [threw |-> TRUE, name |-> name, about |-> about]

RECURSIVE ToStringJS(_)
RECURSIVE JoinItems(_, _)
\* Array.prototype.join(","): undefined and null items give the empty string
JoinItems(items, i) ==
  IF i > Len(items) THEN Return(<<>>)
  ELSE LET Joined(head, tail) ==
             IF head.threw THEN head
             ELSE IF tail.threw THEN tail
             ELSE Return(head.v \o (IF i < Len(items) THEN <<",">> ELSE <<>>) \o tail.v)
       IN Joined(IF items[i].k \in {"undefined", "null"} THEN Return(<<>>)
                 ELSE ToStringJS(items[i]),
                 JoinItems(items, i + 1))

\* the ToString conversion of a template literal `${value}`
ToStringJS(v) ==
  CASE v.k = "undefined" -> Return(<<"u", "n", "d", "e", "f", "i", "n", "e", "d">>)
    [] v.k = "null" -> Return(<<"n", "u", "l", "l">>)
    [] v.k = "NaN" -> Return(<<"N", "a", "N">>)
    [] v.k = "Infinity" -> Return(<<"I", "n", "f", "i", "n", "i", "t", "y">>)
    [] v.k = "-Infinity" -> Return(<<"-", "I", "n", "f", "i", "n", "i", "t", "y">>)
    [] v.k = "number" -> Return(NumberToString(v.tenths))
    [] v.k = "string" -> Return(v.cs)
    [] v.k = "boolean" ->
         Return(IF v.b THEN <<"t", "r", "u", "e">> ELSE <<"f", "a", "l", "s", "e">>)
    [] v.k = "symbol" -> Throw("TypeError", "Cannot convert a Symbol value to a string")
    [] v.k = "array" -> JoinItems(v.items, 1)
    [] OTHER ->
         Return(<<"[", "o", "b", "j", "e", "c", "t", " ",
                  "O", "b", "j", "e", "c", "t", "]">>)

RECURSIVE DigitRun(_, _)
\* the number of consecutive digits of cs from position i on
DigitRun(cs, i) ==
  IF i <= Len(cs) /\ IsDigit(cs[i]) THEN 1 + DigitRun(cs, i + 1) ELSE 0

RECURSIVE DigitsValue(_, _, _)
\* the value of the n digits of cs that start at position i
DigitsValue(cs, i, n) ==
  IF n = 0 THEN 0
  ELSE DigitsValue(cs, i, n - 1) * 10 + DigitValue(cs[i + n - 1])

HasPrefixAt(cs, i, p) ==
  /\ Len(cs) >= i + Len(p) - 1
  /\ \A j \in 1..Len(p) : cs[i + j - 1] = p[j]

\* The longest prefix of cs that is a decimal literal: an optional sign, then
\* Infinity or digits with an optional fraction.  used is the length of the
\* prefix (0 when there is none) and v its value; a fraction is read to its
\* first digit, the strings of the model carry no more than one.
ScanNumber(cs) ==
  LET signed == Len(cs) >= 1 /\ cs[1] \in {"-", "+"}
      neg == signed /\ cs[1] = "-"
      s == IF signed THEN 2 ELSE 1
      Scanned(nInt, dot, nFrac) ==
        IF nInt = 0 /\ nFrac = 0 THEN [used |-> 0, v |-> NaN]
        ELSE [used |-> (s - 1) + nInt + (IF dot THEN 1 + nFrac ELSE 0),
              v |-> Num((IF neg THEN -1 ELSE 1)
                          * (DigitsValue(cs, s, nInt) * 10
                               + (IF nFrac > 0 THEN DigitValue(cs[s + nInt + 1]) ELSE 0)))]
      Fraction(nInt, dot) ==
        Scanned(nInt, dot, IF dot THEN DigitRun(cs, s + nInt + 1) ELSE 0)
      Whole(nInt) == Fraction(nInt, Len(cs) >= s + nInt /\ cs[s + nInt] = ".")
  IN IF HasPrefixAt(cs, s, <<"I", "n", "f", "i", "n", "i", "t", "y">>)
       THEN [used |-> s + 7, v |-> IF neg THEN NegInfinity ELSE Infinity]
     ELSE Whole(DigitRun(cs, s))

\* the global parseFloat: ToString, then the longest numeric prefix
ParseFloat(v) ==
  LET Parsed(s) == IF s.threw THEN s ELSE Return(ScanNumber(s.v).v)
  IN Parsed(ToStringJS(v))

\* the ToNumber conversion of a string: the whole string must be a literal
StringToNumber(cs) ==
  LET Whole(p) == IF p.used = Len(cs) THEN p.v ELSE NaN
  IN IF cs = <<>> THEN Num(0) ELSE Whole(ScanNumber(cs))

\* the ToNumber conversion
ToNumber(v) ==
  LET OfString(s) == IF s.threw THEN s ELSE Return(StringToNumber(s.v))
  IN CASE v.k \in NumberKinds -> Return(v)
       [] v.k = "undefined" -> Return(NaN)
       [] v.k = "null" -> Return(Num(0))
       [] v.k = "boolean" -> Return(IF v.b THEN Num(10) ELSE Num(0))
       [] v.k = "string" -> Return(StringToNumber(v.cs))
       [] v.k = "symbol" -> Throw("TypeError", "Cannot convert a Symbol value to a number")
       [] OTHER -> OfString(ToStringJS(v))

\* the global isNaN
IsNaN(v) ==
  LET Test(n) == IF n.threw THEN n ELSE Return(n.v.k = "NaN")
  IN Test(ToNumber(v))

\* a < b on numbers (false when either is NaN)
NumLess(a, b) ==
  CASE a.k = "NaN" \/ b.k = "NaN" -> FALSE
    [] a.k = "Infinity" \/ b.k = "-Infinity" -> FALSE
    [] a.k = "-Infinity" \/ b.k = "Infinity" -> TRUE
    [] OTHER -> a.tenths < b.tenths

\* a <= b on numbers (false when either is NaN)
NumLessEq(a, b) ==
  CASE a.k = "NaN" \/ b.k = "NaN" -> FALSE
    [] OTHER -> ~NumLess(b, a)

\* the relational operators, which convert both operands with ToNumber
Less(a, b) == NumLess(ToNumber(a).v, ToNumber(b).v)
LessEq(a, b) == NumLessEq(ToNumber(a).v, ToNumber(b).v)
Greater(a, b) == Less(b, a)
GreaterEq(a, b) == LessEq(b, a)

(***************************************************************************)
(* Type inspection and the result helpers.                                 *)
(***************************************************************************)
\* getType: the template literal is evaluated first and throws on a symbol
getType(value) ==
  LET Classify(val, nan) ==
        IF val.threw THEN val
        ELSE IF nan.threw THEN nan
        ELSE IF nan.v /\ val.v = <<"N", "a", "N">> THEN Return("NaN")
        ELSE IF value = Undefined
                  /\ val.v = <<"u", "n", "d", "e", "f", "i", "n", "e", "d">>
          THEN Return("undefined")
        ELSE IF value = Null /\ val.v = <<"n", "u", "l", "l">> THEN Return("null")
        ELSE IF IsArray(value) THEN Return("array")
        ELSE Return(TypeOf(value))
  IN Classify(ToStringJS(value), IsNaN(value))

\* a result payload {error, value}
Result(error, value) == [error |-> error, value |-> value]

\* success as it would be with value: value || null
successOrNull(value) == Result(Null, IF value.k = "undefined" THEN Null ELSE value)

success(value) == Result(Null, value)

\* typeError as it would be if it handed the offending kind back as value
typeErrorKeepsActual(expected, actual) ==
  [error |-> [k |-> "string", template |-> "Expected ${expected} but got ${actual}",
              expected |-> expected, actual |-> actual],
   value |-> [k |-> "string", cs |-> <<actual>>]]

\* typeError as it would be with its two substitutions swapped
typeErrorSwapped(expected, actual) ==
  [error |-> [k |-> "string", template |-> "Expected ${expected} but got ${actual}",
              expected |-> actual, actual |-> expected],
   value |-> Null]

\* A message string built by a template literal is kept as its template and
\* the values substituted into it.
typeError(expected, actual) ==
  Result([k |-> "string", template |-> "Expected ${expected} but got ${actual}",
          expected |-> expected, actual |-> actual], Null)

\* ToBoolean: a message is a non-empty string
Truthy(v) ==
  CASE v.k \in {"undefined", "null", "NaN"} -> FALSE
    [] v.k = "number" -> v.tenths # 0
    [] v.k = "boolean" -> v.b
    [] v.k = "string" -> IF "cs" \in DOMAIN v THEN v.cs # <<>> ELSE TRUE
    [] OTHER -> TRUE

primitiveTypeCheck(value, type) ==
  LET Check(actualType) ==
        IF actualType.threw THEN actualType
        ELSE IF actualType.v # type THEN Return(typeError(type, actualType.v))
        ELSE Return(success(value))
  IN Check(getType(value))

\* _any: true if any of the flags is true
AnyOf(args) ==
  LET Reduce(t) ==
        IF t.threw THEN t
        ELSE IF t.v # "array" THEN Throw("TypeError", "Must be of type number")
        ELSE Return(\E i \in 1..Len(args.items) : args.items[i].b)
  IN Reduce(getType(args))

\* Math.round: the nearest integer, a half rounds up
MathRound(n) ==
  IF n.k = "number" THEN Num(((n.tenths + 5) \div 10) * 10) ELSE n

\* convertToInteger as it would be with Math.floor
convertToIntegerFloor(value) ==
  LET Floor(f) ==
        IF f.threw THEN f
        ELSE IF f.v.k = "number" THEN Return(Num((f.v.tenths \div 10) * 10))
        ELSE Return(f.v)
  IN Floor(ParseFloat(value))

convertToInteger(value) ==
  LET Round(f) == IF f.threw THEN f ELSE Return(MathRound(f.v))
  IN Round(ParseFloat(value))

RECURSIVE Zeros(_)
Zeros(n) == IF n <= 0 THEN <<>> ELSE <<"0">> \o Zeros(n - 1)

\* Number.prototype.toFixed on a number held in tenths: a half rounds away
\* from zero, and the fraction has exactly digits places
ToFixed(n, digits) ==
  IF digits.k # "number" \/ digits.tenths < 0 \/ digits.tenths >= 1010
    THEN Throw("RangeError", "toFixed() digits argument must be between 0 and 100")
  ELSE IF n.k # "number" THEN ToStringJS(n)
  ELSE LET d == digits.tenths \div 10
           a == IF n.tenths < 0 THEN -n.tenths ELSE n.tenths
           sign == IF n.tenths < 0 THEN <<"-">> ELSE <<>>
       IN IF d = 0 THEN Return(sign \o NatToString((a + 5) \div 10))
          ELSE Return(sign \o NatToString(a \div 10) \o <<".", Digit[(a % 10) + 1]>>
                        \o Zeros(d - 1))

convertToFloat(value, decimalPlaces) ==
  LET Reparse(s) == IF s.threw THEN s ELSE ParseFloat(Str(s.v))
      Fix(f) == IF f.threw THEN f ELSE Reparse(ToFixed(f.v, decimalPlaces))
  IN Fix(ParseFloat(value))

\* Object.values of a string: its characters
StringValues(value) == Arr([i \in 1..Len(value.cs) |-> Str(<<value.cs[i]>>)])

\* checkForString as it would be without the count of the dots
checkForStringAnyDots(value) ==
  LET chars == StringValues(value).items
      codePointsFlag ==
        Arr([i \in 1..Len(chars) |->
               Bool(~(IsDigit(value.cs[i]) \/ value.cs[i] = "."))])
      Check(bad) ==
        IF bad.threw THEN bad
        ELSE IF bad.v THEN Return(typeError("number", "string"))
        ELSE Return(success(value))
  IN Check(AnyOf(codePointsFlag))

checkForString(value) ==
  LET chars == StringValues(value).items
      dotCount == Cardinality({i \in 1..Len(chars) : value.cs[i] = "."})
      codePointsFlag ==
        Arr([i \in 1..Len(chars) |->
               Bool(~(IsDigit(value.cs[i]) \/ value.cs[i] = "."))])
      Check(bad) ==
        IF bad.threw THEN bad
        ELSE IF bad.v THEN Return(typeError("number", "string"))
        ELSE IF dotCount > 1 THEN Return(typeError("number", "string"))
        ELSE Return(success(value))
  IN Check(AnyOf(codePointsFlag))

(***************************************************************************)
(* The constraint checks.                                                  *)
(***************************************************************************)
lengthError(type, lengthSchema, minFailed) ==
  IF minFailed
    THEN Result([k |-> "string",
                 template |-> "${type} must have minimum length of ${minLength}",
                 type |-> type, bound |-> lengthSchema.minLength], Null)
    ELSE Result([k |-> "string",
                 template |-> "${type} must have maximum length of ${maxLength}",
                 type |-> type, bound |-> lengthSchema.maxLength], Null)

rangeError(type, rangeSchema, minFailed) ==
  IF minFailed
    THEN Result([k |-> "string", template |-> "${type} can have min value of ${min}.",
                 type |-> type, bound |-> rangeSchema.min], Null)
    ELSE Result([k |-> "string", template |-> "${type} can have max value of ${max}.",
                 type |-> type, bound |-> rangeSchema.max], Null)

\* rangeCheck as it would be if it took a bound of 0 for an unset bound
rangeCheckTruthy(value, rangeSchema, type) ==
  IF TypeOf(value) # "number"
    THEN Throw("TypeError", "must be of type number")
  ELSE LET min == rangeSchema.min
           max == rangeSchema.max
       IN IF Truthy(min) /\ Less(value, min)
            THEN Return(rangeError(type, rangeSchema, TRUE))
          ELSE IF Truthy(max) /\ Greater(value, max)
            THEN Return(rangeError(type, rangeSchema, FALSE))
          ELSE Return(success(value))

rangeCheck(value, rangeSchema, type) ==
  IF TypeOf(value) # "number"
    THEN Throw("TypeError", "must be of type number")
  ELSE LET min == rangeSchema.min
           max == rangeSchema.max
       IN IF min # Null /\ getType(min).v = "number" /\ Less(value, min)
            THEN Return(rangeError(type, rangeSchema, TRUE))
          ELSE IF max # Null /\ getType(max).v = "number" /\ Greater(value, max)
            THEN Return(rangeError(type, rangeSchema, FALSE))
          ELSE Return(success(value))

\* lengthCheck as it would be without its two comparisons
lengthCheckUnbounded(value, lengthSchema, type) ==
  IF ~IsArray(value)
    THEN Throw("TypeError", "must be of type Array")
  ELSE Return(success(value))

lengthCheck(value, lengthSchema, type) ==
  IF ~IsArray(value)
    THEN Throw("TypeError", "must be of type Array")
  ELSE LET length == Num(Len(value.items) * 10)
           maxLength == lengthSchema.maxLength
       IN IF /\ lengthSchema.minLength # Null
             /\ getType(lengthSchema.minLength).v = "number"
             /\ Less(length, lengthSchema.minLength)
            THEN Return(lengthError(type, lengthSchema, TRUE))
          ELSE IF /\ maxLength # Null
                  /\ getType(maxLength).v = "number"
                  /\ Greater(length, maxLength)
            THEN Return(lengthError(type, lengthSchema, FALSE))
          ELSE Return(success(value))

(***************************************************************************)
(* Validator instances.                                                    *)
(***************************************************************************)
\* the object primitiveType(type)() builds
PrimitiveNew(type) == [cls |-> "primitiveType", type |-> type, _optional |-> FALSE]

AnyStateNew == [cls |-> "AnyState", _optional |-> FALSE, _allowUndefinedNull |-> FALSE]

NumberStateNew ==
  [cls |-> "NumberState", _type |-> "number", _optional |-> FALSE,
   _min |-> Null, _max |-> Null, _toFloat |-> FALSE, _toInteger |-> FALSE,
   _decimalPlaces |-> Null]

StringStateNew ==
  [cls |-> "StringState", _type |-> "string", _optional |-> FALSE,
   _minLength |-> Null, _maxLength |-> Null]

\* validationSchema is the sequence of the schema's own keys, in insertion
\* order, each with the entry stored under it
ObjectStateNew(validationSchema) ==
  [cls |-> "ObjectState", _type |-> "object", _optional |-> FALSE,
   _minLength |-> Null, _maxLength |-> Null, validationSchema |-> validationSchema]

ListStateNew(validationSchema) ==
  [cls |-> "ListState", _type |-> "array", _optional |-> FALSE,
   _maxLength |-> Null, _minLength |-> Null, validationSchema |-> validationSchema]

Entry(key, validation) == [key |-> key, validation |-> validation]

\* outcome of a method: the instance as the method leaves it, and what the
\* call returned (ret) or threw
Returned(self, ret) == [threw |-> FALSE, self |-> self, ret |-> ret]
Thrown(self, name, about) == [threw |-> TRUE, self |-> self, name |-> name, about |-> about]

(***************************************************************************)
(* Configuration methods.  Each takes the instance and returns it as the   *)
(* method leaves it.                                                       *)
(***************************************************************************)
optional(self) == Returned([self EXCEPT !._optional = TRUE], "this")

allowUndefinedNull(self) == Returned([self EXCEPT !._allowUndefinedNull = TRUE], "this")

\* LengthMixins.minLength: the ordering test reads this._minLength, the bound
\* stored before the call, where maxLength reads its argument
minLength(self, length) ==
  LET Set(lengthType) ==
        IF lengthType.threw THEN Thrown(self, lengthType.name, lengthType.about)
        ELSE IF lengthType.v # "number"
          THEN Thrown(self, "TypeError", "Argument to the minLength must be of type number")
        ELSE IF self._maxLength # Null /\ GreaterEq(self._minLength, self._maxLength)
          THEN Thrown(self, "Error", "Min length must be less than Max Length")
        ELSE Returned([self EXCEPT !._minLength = length], "this")
  IN Set(getType(length))

maxLength(self, length) ==
  LET Set(lengthType) ==
        IF lengthType.threw THEN Thrown(self, lengthType.name, lengthType.about)
        ELSE IF lengthType.v # "number"
          THEN Thrown(self, "TypeError", "Argument to the minLength must be of type numner")
        ELSE IF self._minLength # Null /\ LessEq(length, self._minLength)
          THEN Thrown(self, "Error", "Max length must be greater than Min Length")
        ELSE Returned([self EXCEPT !._maxLength = length], "this")
  IN Set(getType(length))

\* max as it would be if it stored the bound before the ordering test
maxStoresFirst(self, value) ==
  LET Set(t) ==
        IF t.threw THEN Thrown(self, t.name, t.about)
        ELSE IF t.v # "number" THEN Thrown(self, "TypeError", "must be of type number")
        ELSE IF self._min # Null /\ LessEq(value, self._min)
          THEN Thrown([self EXCEPT !._max = value], "Error",
                      "Max value must be greater than min value")
        ELSE Returned([self EXCEPT !._max = value], "this")
  IN Set(getType(value))

\* NumberState.prototype.max
max(self, value) ==
  LET Set(t) ==
        IF t.threw THEN Thrown(self, t.name, t.about)
        ELSE IF t.v # "number" THEN Thrown(self, "TypeError", "must be of type number")
        ELSE IF self._min # Null /\ LessEq(value, self._min)
          THEN Thrown(self, "Error", "Max value must be greater than min value")
        ELSE Returned([self EXCEPT !._max = value], "this")
  IN Set(getType(value))

\* min as it would be with the slip of LengthMixins.minLength: the ordering
\* test reads the bound stored before the call
minStale(self, value) ==
  LET Set(t) ==
        IF t.threw THEN Thrown(self, t.name, t.about)
        ELSE IF t.v # "number" THEN Thrown(self, "TypeError", "must be of type number")
        ELSE IF self._max # Null /\ GreaterEq(self._min, self._max)
          THEN Thrown(self, "Error", "Min value must be less than max value")
        ELSE Returned([self EXCEPT !._min = value], "this")
  IN Set(getType(value))

\* NumberState.prototype.min
min(self, value) ==
  LET Set(t) ==
        IF t.threw THEN Thrown(self, t.name, t.about)
        ELSE IF t.v # "number" THEN Thrown(self, "TypeError", "must be of type number")
        ELSE IF self._max # Null /\ GreaterEq(value, self._max)
          THEN Thrown(self, "Error", "Min value must be less than max value")
        ELSE Returned([self EXCEPT !._min = value], "this")
  IN Set(getType(value))

\* toInteger as it would be without the test of the float mode
toIntegerUnchecked(self) == Returned([self EXCEPT !._toInteger = TRUE], "this")

toInteger(self) ==
  IF self._toFloat
    THEN Thrown(self, "Error", "Invalid Conversion scheme. Cannot be both float and integer.")
  ELSE Returned([self EXCEPT !._toInteger = TRUE], "this")

\* toFloat(decimalPlaces = 3): an undefined argument takes the default
toFloat(self, arg) ==
  LET decimalPlaces == IF arg = Undefined THEN Num(30) ELSE arg
      Set(t) ==
        IF self._toInteger
          THEN Thrown(self, "Error",
                      "Invalid conversion scheme. Cannot be both integer and float.")
        ELSE IF t.threw THEN Thrown(self, t.name, t.about)
        ELSE IF t.v # "number"
          THEN Thrown(self, "TypeError", "Invalid argument to function toFloat")
        ELSE Returned([self EXCEPT !._toFloat = TRUE, !._decimalPlaces = decimalPlaces],
                      "this")
  IN Set(getType(decimalPlaces))

(***************************************************************************)
(* validate.                                                               *)
(***************************************************************************)
RECURSIVE SeqOf(_)
\* the members of a finite set, one after the other
SeqOf(S) ==
  IF S = {} THEN <<>>
  ELSE LET x == CHOOSE y \in S : TRUE IN <<x>> \o SeqOf(S \ {x})

\* Object.keys of a plain object (the keys of the model are one character long)
ObjectKeys(o) ==
  LET ks == SeqOf(DOMAIN o.fields)
  IN Arr([i \in 1..Len(ks) |-> Str(<<ks[i]>>)])

\* Object.values of a plain object
ObjectValues(o) ==
  LET ks == SeqOf(DOMAIN o.fields)
  IN Arr([i \in 1..Len(ks) |-> o.fields[ks[i]]])

\* o[key]: an own property, or undefined
GetProp(o, key) ==
  IF o.k = "object" /\ key \in DOMAIN o.fields THEN o.fields[key] ELSE Undefined

\* mapping[key] = v on a plain mapping
Put(fields, key, v) ==
  [x \in (DOMAIN fields) \cup {key} |-> IF x = key THEN v ELSE fields[x]]

\* the property name of an array index
IndexKey(index) == NatToString(index)[1]

\* validation.validate: a validator instance has the method, a plain object has
\* it only as an own property, anything else has none
ValidateOf(validation) ==
  IF validation.k = "validator" THEN [k |-> "function"]
  ELSE GetProp(validation, "validate")

\* all as it would be if it asked for some flag to be true
allSome(args) ==
  IF ~IsArray(args) THEN Throw("TypeError", "Argument must be of type array.")
  ELSE Return(\E i \in 1..Len(args.items) : args.items[i].b)

\* all: true if every flag is true
all(args) ==
  IF ~IsArray(args) THEN Throw("TypeError", "Argument must be of type array.")
  ELSE Return(\A i \in 1..Len(args.items) : args.items[i].b)

\* the validate function of the objects primitiveType builds
PrimitiveValidate(self, value) ==
  IF self._optional /\ (value = Undefined \/ value = Null)
    THEN Return(success(value))
  ELSE primitiveTypeCheck(value, self.type)

AnyValidate(self, payload) ==
  LET Check(actualType) ==
        IF actualType.threw THEN actualType
        ELSE IF ~self._allowUndefinedNull /\ actualType.v \in {"undefined", "null"}
          THEN Return(typeError("any", actualType.v))
        ELSE Return(success(payload))
  IN IF self._optional /\ (payload = Undefined \/ payload = Null)
       THEN Return(success(payload))
     ELSE Check(getType(payload))

\* a result that ends the call: a thrown error, or a result whose error is truthy
Ends(r) == r.threw \/ Truthy(r.v.error)

\* the coercion as it would be if it returned the parsed number when no mode
\* is set
NumberConvertedParsed(self, payload) ==
  LET Done(convertedPayload) ==
        IF convertedPayload.threw THEN convertedPayload
        ELSE Return(success(convertedPayload.v))
  IN Done(IF self._toInteger THEN convertToInteger(payload)
          ELSE IF self._toFloat THEN convertToFloat(payload, self._decimalPlaces)
          ELSE ParseFloat(payload))

\* NumberState.prototype.validate: the coercion of a payload in range
NumberConverted(self, payload) ==
  LET Done(convertedPayload) ==
        IF convertedPayload.threw THEN convertedPayload
        ELSE Return(success(convertedPayload.v))
  IN Done(IF self._toInteger THEN convertToInteger(payload)
          ELSE IF self._toFloat THEN convertToFloat(payload, self._decimalPlaces)
          ELSE Return(payload))

\* NumberState.prototype.validate from the parse on
NumberParsed(self, payload) ==
  LET Ranged(rangeResult) ==
        IF Ends(rangeResult) THEN rangeResult ELSE NumberConverted(self, payload)
      Typed(parsableNumber, value) ==
        IF Ends(value) THEN value
        ELSE IF self._min # Null \/ self._max # Null
          THEN Ranged(rangeCheck(parsableNumber,
                                 [min |-> self._min, max |-> self._max], self._type))
        ELSE NumberConverted(self, payload)
      Parsed(parsableNumber) ==
        IF parsableNumber.threw THEN parsableNumber
        ELSE Typed(parsableNumber.v, primitiveTypeCheck(parsableNumber.v, self._type))
  IN Parsed(ParseFloat(payload))

\* NumberState.prototype.validate as it would be without the test for Infinity
NumberValidateNoInfinity(self, payload) ==
  LET Checked(includeStringValidation) ==
        IF Ends(includeStringValidation) THEN includeStringValidation
        ELSE NumberParsed(self, payload)
      Typed(t) ==
        IF t.threw THEN t
        ELSE IF t.v = "string" THEN Checked(checkForString(payload))
        ELSE NumberParsed(self, payload)
  IN IF self._optional /\ (payload = Undefined \/ payload = Null)
       THEN Return(success(payload))
     ELSE Typed(getType(payload))

NumberValidate(self, payload) ==
  LET AfterString ==
        IF payload = Infinity
          THEN Return(Result([k |-> "string",
                              template |-> "Expected number but got Infinity.Invalid!"],
                             Null))
        ELSE NumberParsed(self, payload)
      Checked(includeStringValidation) ==
        IF Ends(includeStringValidation) THEN includeStringValidation ELSE AfterString
      Typed(t) ==
        IF t.threw THEN t
        ELSE IF t.v = "string" THEN Checked(checkForString(payload))
        ELSE AfterString
  IN IF self._optional /\ (payload = Undefined \/ payload = Null)
       THEN Return(success(payload))
     ELSE Typed(getType(payload))

StringValidate(self, payload) ==
  LET Bounded(lengthResult) ==
        IF Ends(lengthResult) THEN lengthResult ELSE Return(success(payload))
      Typed(value) ==
        IF Ends(value) THEN value
        ELSE IF self._minLength # Null \/ self._maxLength # Null
          THEN Bounded(lengthCheck(StringValues(payload),
                                   [minLength |-> self._minLength,
                                    maxLength |-> self._maxLength],
                                   self._type))
        ELSE Return(success(payload))
  IN IF self._optional /\ (payload = Undefined \/ payload = Null)
       THEN Return(success(payload))
     ELSE Typed(primitiveTypeCheck(payload, self._type))

RECURSIVE validate(_, _, _)
RECURSIVE ObjectFields(_, _, _, _, _, _)
\* the forEach over Object.keys(this.validationSchema), from the i-th key on,
\* and the result built after it
ObjectFields(h, schema, i, payload, errorPayload, valuePayload) ==
  LET key == schema[i].key
      validation == schema[i].validation
      Collect(r) ==
        IF r.threw THEN r
        ELSE IF r.v.error # Null
          THEN ObjectFields(h, schema, i + 1, payload,
                            Put(errorPayload, key, r.v.error), valuePayload)
        ELSE ObjectFields(h, schema, i + 1, payload,
                          errorPayload, Put(valuePayload, key, r.v.value))
  IN IF i > Len(schema)
       THEN Return(Result(IF DOMAIN errorPayload # {} THEN Obj(errorPayload) ELSE Null,
                          IF DOMAIN valuePayload # {} THEN Obj(valuePayload) ELSE Null))
     ELSE IF \/ TypeOf(validation) # "object"
             \/ validation = Null
             \/ ~Truthy(ValidateOf(validation))
             \/ TypeOf(ValidateOf(validation)) # "function"
       THEN [threw |-> TRUE, name |-> "TypeError",
             about |-> "Invalid schema for ${key}", key |-> key]
     ELSE Collect(validate(h, validation.id, GetProp(payload, key)))

ObjectValidate(h, self, payload) ==
  LET Fields == ObjectFields(h, self.validationSchema, 1, payload, <<>>, <<>>)
      Bounded(lengthResult) == IF Ends(lengthResult) THEN lengthResult ELSE Fields
      Typed(value) ==
        IF Ends(value) THEN value
        ELSE IF self._minLength # Null \/ self._maxLength # Null
          THEN Bounded(lengthCheck(ObjectKeys(payload),
                                   [minLength |-> self._minLength,
                                    maxLength |-> self._maxLength],
                                   self._type))
        ELSE Fields
  IN IF self._optional /\ (payload = Undefined \/ payload = Null)
       THEN Return(success(payload))
     ELSE Typed(primitiveTypeCheck(payload, "object"))

\* the entry of the accumulator as it would be if it were the error itself
ListEntryBare(error, value) == error

\* { error: error, value: value }, the entry the reducer stores under an index
ListEntry(error, value) == Obj([error |-> error, value |-> value])

RECURSIVE ListItems(_, _, _, _, _)
\* payload.reduce from the element of index index on; acc is the accumulator
ListItems(h, self, payload, index, acc) ==
  LET Collect(r) ==
        IF r.threw THEN r
        ELSE IF r.v.error # Null
          THEN ListItems(h, self, payload, index + 1,
                         Put(acc, IndexKey(index), ListEntry(r.v.error, r.v.value)))
        ELSE ListItems(h, self, payload, index + 1, acc)
  IN IF index >= Len(payload.items) THEN Return(acc)
     ELSE IF ~Truthy(ValidateOf(self.validationSchema))
       THEN Throw("TypeError", "this.validationSchema.validate is not a function")
     ELSE Collect(validate(h, self.validationSchema.id, payload.items[index + 1]))

\* ListState.prototype.validate after the reduce
ListResult(payload, res) ==
  LET entries == ObjectValues(Obj(res)).items
      Decide(ok) ==
        IF ok.threw THEN ok
        ELSE IF ok.v THEN Return(Result(Null, payload))
        ELSE Return(Result(Obj(res), Null))
  IN Decide(all(Arr([i \in 1..Len(entries) |-> Bool(GetProp(entries[i], "error") = Null)])))

ListValidate(h, self, payload) ==
  LET Reduced(res) == IF res.threw THEN res ELSE ListResult(payload, res.v)
      Items == Reduced(ListItems(h, self, payload, 0, <<>>))
      Bounded(lengthResult) == IF Ends(lengthResult) THEN lengthResult ELSE Items
      Typed(value) ==
        IF Ends(value) THEN value
        ELSE IF self._minLength # Null \/ self._maxLength # Null
          THEN Bounded(lengthCheck(payload,
                                   [minLength |-> self._minLength,
                                    maxLength |-> self._maxLength],
                                   self._type))
        ELSE Items
  IN IF self._optional /\ (payload = Undefined \/ payload = Null)
       THEN Return(success(payload))
     ELSE Typed(primitiveTypeCheck(payload, "array"))

\* the validate method of the instance h[id], by its class
validate(h, id, payload) ==
  LET self == h[id]
  IN CASE self.cls = "primitiveType" -> PrimitiveValidate(self, payload)
       [] self.cls = "AnyState" -> AnyValidate(self, payload)
       [] self.cls = "NumberState" -> NumberValidate(self, payload)
       [] self.cls = "StringState" -> StringValidate(self, payload)
       [] self.cls = "ObjectState" -> ObjectValidate(h, self, payload)
       [] self.cls = "ListState" -> ListValidate(h, self, payload)

(***************************************************************************)
(* The caller: it builds one validator tree, configures its validators by  *)
(* chained calls and validates payloads at the root.  heap[1] is the root. *)
(***************************************************************************)
\* string()
ProgString == <<StringStateNew>>
\* number()
ProgNumber == <<NumberStateNew>>
\* boolean()
ProgBoolean == <<PrimitiveNew("boolean")>>
\* symbol()
ProgSymbol == <<PrimitiveNew("symbol")>>
\* any()
ProgAny == <<AnyStateNew>>
\* object({})
ProgObjectEmpty == <<ObjectStateNew(<<>>)>>
\* object({a: string(), b: boolean()})
ProgObject ==
  <<ObjectStateNew(<<Entry("a", Ref(2)), Entry("b", Ref(3))>>),
    StringStateNew, PrimitiveNew("boolean")>>
\* object({a: list(boolean())})
ProgObjectOfList ==
  <<ObjectStateNew(<<Entry("a", Ref(2))>>), ListStateNew(Ref(3)), PrimitiveNew("boolean")>>
\* object({a: symbol()})
ProgObjectOfSymbol == <<ObjectStateNew(<<Entry("a", Ref(2))>>), PrimitiveNew("symbol")>>
\* list(number())
ProgList == <<ListStateNew(Ref(2)), NumberStateNew>>
\* list(object({a: any(), b: boolean()}))
ProgListOfObject ==
  <<ListStateNew(Ref(2)),
    ObjectStateNew(<<Entry("a", Ref(3)), Entry("b", Ref(4))>>),
    AnyStateNew, PrimitiveNew("boolean")>>
\* object({a: boolean(), b: 5}), object({a: null}), object({a: {}}): schemas
\* with an entry that is no validator
ProgBadNumber ==
  <<ObjectStateNew(<<Entry("a", Ref(2)), Entry("b", Num(50))>>), PrimitiveNew("boolean")>>
ProgBadNull == <<ObjectStateNew(<<Entry("a", Null)>>)>>
ProgBadObject == <<ObjectStateNew(<<Entry("a", Obj(<<>>))>>)>>

\* the trees the caller builds, one per run
Programs ==
  <<ProgString, ProgNumber, ProgBoolean, ProgSymbol, ProgAny, ProgObjectEmpty,
    ProgObject, ProgObjectOfList, ProgObjectOfSymbol, ProgList, ProgListOfObject,
    ProgBadNumber, ProgBadNull, ProgBadObject>>

\* the payloads the caller validates
LeafPayloads ==
  {Undefined, Null, NaN, Infinity, NegInfinity,
   Num(-10), Num(0), Num(10), Num(15), Num(25),
   Str(<<>>), Str(<<"1">>), Str(<<"1", ".", "5">>), Str(<<"a">>), Str(<<"1", "a">>),
   Str(<<"1", ".", "2", ".", "3">>), Str(<<"N", "a", "N">>), Str(<<".">>),
   Bool(TRUE), Sym("s")}

ArrayPayloads ==
  {Arr(<<>>), Arr(<<Num(10)>>), Arr(<<Num(10), Str(<<"a">>), Num(25)>>),
   Arr(<<Str(<<"a">>), Bool(TRUE)>>), Arr(<<Sym("s")>>), Arr(<<NaN>>),
   Arr(<<Obj([a |-> Str(<<"a">>), b |-> Bool(TRUE)])>>),
   Arr(<<Obj([a |-> Str(<<"a">>), b |-> Bool(TRUE)]),
         Obj([a |-> Str(<<"a">>), b |-> Num(10)])>>)}

ObjectPayloads ==
  {Obj(<<>>),
   Obj([a |-> Str(<<"a">>), b |-> Bool(TRUE)]),
   Obj([a |-> Str(<<"a">>), b |-> Num(10)]),
   Obj([a |-> Num(10), b |-> Str(<<"a">>)]),
   Obj([a |-> Str(<<"a">>), b |-> Bool(TRUE), c |-> Bool(TRUE)]),
   Obj([a |-> Sym("s")]),
   Obj([a |-> Arr(<<Bool(TRUE)>>)]),
   Obj([a |-> Arr(<<Bool(TRUE), Num(10)>>)])}

Payloads == LeafPayloads \cup ArrayPayloads \cup ObjectPayloads

\* arguments handed to minLength and maxLength
BoundArgs == {Num(i * 10) : i \in 0..MaxBound} \cup {Str(<<"1">>)}

\* arguments handed to min and max: a bound may have a fraction
RangeArgs == BoundArgs \cup {Num(15)}

\* arguments handed to toFloat (undefined: the default precision)
PrecisionArgs == {Undefined, Num(0), Num(-10), Str(<<"1">>)}

\* configuration calls the caller makes on a tree
CallBudget(h) == IF Len(h) = 1 THEN MaxCallsLeaf ELSE MaxCallsTree

Init ==
  /\ \E p \in DOMAIN Programs : heap = Programs[p]
  /\ calls = 0
  /\ last = [op |-> "new", self |-> 1, arg |-> Undefined, out |-> Return(Ref(1))]

\* a configuration call on heap[id]: the instance is left as the method left
\* it, and the call returns the instance or throws
Configure(id, op, arg, m) ==
  /\ calls < CallBudget(heap)
  /\ calls' = calls + 1
  /\ heap' = [heap EXCEPT ![id] = m.self]
  /\ last' = [op |-> op, self |-> id, arg |-> arg,
              out |-> IF m.threw THEN Throw(m.name, m.about) ELSE Return(Ref(id))]

PrimitiveOptional(id) ==
  /\ heap[id].cls = "primitiveType"
  /\ Configure(id, "optional", Undefined, optional(heap[id]))

AnyOptional(id) ==
  /\ heap[id].cls = "AnyState"
  /\ Configure(id, "optional", Undefined, optional(heap[id]))

AnyAllowUndefinedNull(id) ==
  /\ heap[id].cls = "AnyState"
  /\ Configure(id, "allowUndefinedNull", Undefined, allowUndefinedNull(heap[id]))

NumberOptional(id) ==
  /\ heap[id].cls = "NumberState"
  /\ Configure(id, "optional", Undefined, optional(heap[id]))

NumberMax(id, value) ==
  /\ heap[id].cls = "NumberState"
  /\ Configure(id, "max", value, max(heap[id], value))

NumberMin(id, value) ==
  /\ heap[id].cls = "NumberState"
  /\ Configure(id, "min", value, min(heap[id], value))

NumberToInteger(id) ==
  /\ heap[id].cls = "NumberState"
  /\ Configure(id, "toInteger", Undefined, toInteger(heap[id]))

NumberToFloat(id, decimalPlaces) ==
  /\ heap[id].cls = "NumberState"
  /\ Configure(id, "toFloat", decimalPlaces, toFloat(heap[id], decimalPlaces))

StringOptional(id) ==
  /\ heap[id].cls = "StringState"
  /\ Configure(id, "optional", Undefined, optional(heap[id]))

ObjectOptional(id) ==
  /\ heap[id].cls = "ObjectState"
  /\ Configure(id, "optional", Undefined, optional(heap[id]))

ListOptional(id) ==
  /\ heap[id].cls = "ListState"
  /\ Configure(id, "optional", Undefined, optional(heap[id]))

\* the classes LengthMixins is spread into
LengthClasses == {"StringState", "ObjectState", "ListState"}

MinLength(id, length) ==
  /\ heap[id].cls \in LengthClasses
  /\ Configure(id, "minLength", length, minLength(heap[id], length))

MaxLength(id, length) ==
  /\ heap[id].cls \in LengthClasses
  /\ Configure(id, "maxLength", length, maxLength(heap[id], length))

\* validate as it would be if it kept on the instance that it has been called
ValidateMarking(payload) ==
  /\ last' = [op |-> "validate", self |-> 1, arg |-> payload,
              out |-> validate(heap, 1, payload)]
  /\ heap' = [heap EXCEPT ![1]._optional = TRUE]
  /\ UNCHANGED calls

\* root.validate(payload): no field of any instance is assigned
Validate(payload) ==
  /\ last' = [op |-> "validate", self |-> 1, arg |-> payload,
              out |-> validate(heap, 1, payload)]
  /\ UNCHANGED <<heap, calls>>

Next ==
  \/ \E id \in DOMAIN heap : PrimitiveOptional(id)
  \/ \E id \in DOMAIN heap : AnyOptional(id)
  \/ \E id \in DOMAIN heap : AnyAllowUndefinedNull(id)
  \/ \E id \in DOMAIN heap : NumberOptional(id)
  \/ \E id \in DOMAIN heap, value \in RangeArgs : NumberMax(id, value)
  \/ \E id \in DOMAIN heap, value \in RangeArgs : NumberMin(id, value)
  \/ \E id \in DOMAIN heap : NumberToInteger(id)
  \/ \E id \in DOMAIN heap, decimalPlaces \in PrecisionArgs : NumberToFloat(id, decimalPlaces)
  \/ \E id \in DOMAIN heap : StringOptional(id)
  \/ \E id \in DOMAIN heap : ObjectOptional(id)
  \/ \E id \in DOMAIN heap : ListOptional(id)
  \/ \E id \in DOMAIN heap, length \in BoundArgs : MinLength(id, length)
  \/ \E id \in DOMAIN heap, length \in BoundArgs : MaxLength(id, length)
  \/ \E payload \in Payloads : Validate(payload)

Spec == Init /\ [][Next]_vars

(***************************************************************************)
(* Properties.                                                             *)
(***************************************************************************)
\* the validator the caller validates with
Root == heap[1]

\* a slot of a result holds something: it is neither null nor undefined
Present(v) == v # Null /\ v # Undefined

\* the last call was a validate that returned a result
ValidateReturned == last.op = "validate" /\ ~last.out.threw

Composite == {"ObjectState", "ListState"}

\* the kind a validator expects
ExpectedKind(self) ==
  CASE self.cls = "primitiveType" -> self.type
    [] self.cls = "AnyState" -> "any"
    [] self.cls = "NumberState" -> "number"
    [] self.cls = "StringState" -> "string"
    [] self.cls = "ObjectState" -> "object"
    [] self.cls = "ListState" -> "array"

\* r is a type error naming kind as the expected kind, with a null value
IsTypeErrorNaming(r, kind) ==
  /\ r.value = Null
  /\ r.error.k = "string"
  /\ r.error.template = "Expected ${expected} but got ${actual}"
  /\ r.error.expected = kind

\* C1 as stated: a result returned by validate has exactly one of error and
\* value present, the only exception being a composite result whose error
\* mapping and value mapping are both empty.
C1_ExactlyOne ==
  ValidateReturned =>
    LET r == last.out.v
    IN \/ Present(r.error) # Present(r.value)
       \/ /\ Root.cls \in Composite
          /\ last.arg.k \in {"object", "array"}
          /\ r.error = Null /\ r.value = Null

\* C1 amended: error and value of a returned result are both present only for
\* an object validator on a partial failure, where they are the error mapping
\* and the value mapping, over disjoint sets of schema keys; they are both
\* absent only when an undefined or null input was accepted (optional, or
\* allowUndefinedNull on any) and is the value, or when an object validator
\* with an empty schema validated an object.
C1_PresentSlots ==
  ValidateReturned =>
    LET r == last.out.v
    IN /\ r.error # Undefined
       /\ (Present(r.error) /\ Present(r.value)) =>
            /\ Root.cls = "ObjectState"
            /\ r.error.k = "object" /\ r.value.k = "object"
            /\ DOMAIN r.error.fields # {} /\ DOMAIN r.value.fields # {}
            /\ (DOMAIN r.error.fields) \cap (DOMAIN r.value.fields) = {}
       /\ (~Present(r.error) /\ ~Present(r.value)) =>
            \/ /\ last.arg \in {Undefined, Null}
               /\ r.value = last.arg
               /\ \/ Root._optional
                  \/ Root.cls = "AnyState" /\ Root._allowUndefinedNull
            \/ /\ Root.cls = "ObjectState"
               /\ last.arg.k = "object"
               /\ Root.validationSchema = <<>>

\* C1 witness: an object validator returned an error mapping and a value
\* mapping together.
C1_PartialFailure ==
  /\ ValidateReturned
  /\ Root.cls = "ObjectState"
  /\ Present(last.out.v.error) /\ Present(last.out.v.value)

\* C2 as stated: on every string, object and list validator, whenever both
\* length bounds are set, minLength < maxLength holds strictly.
C2_LengthOrdered ==
  \A id \in DOMAIN heap :
    (/\ heap[id].cls \in LengthClasses
     /\ heap[id]._minLength # Null
     /\ heap[id]._maxLength # Null)
      => Less(heap[id]._minLength, heap[id]._maxLength)

\* C3: on every validator on which optional() has been called, whatever else
\* is configured, validate(undefined) and validate(null) return success with
\* the input as value.
C3_OptionalShortCircuit ==
  /\ \A id \in DOMAIN heap : \A x \in {Undefined, Null} :
       heap[id]._optional => validate(heap, id, x) = Return(Result(Null, x))
  /\ (last.op = "validate" /\ Root._optional /\ last.arg \in {Undefined, Null})
       => last.out = Return(Result(Null, last.arg))

\* C3 witness: an optional number validator with a bound and a coercion mode
\* accepted undefined.
C3_OptionalNumberAccepts ==
  /\ last.op = "validate"
  /\ Root.cls = "NumberState"
  /\ Root._optional /\ Root._toInteger
  /\ (Root._min # Null \/ Root._max # Null)
  /\ last.arg = Undefined
  /\ last.out = Return(Result(Null, Undefined))

\* C4 as stated: every validator on which optional() has not been called,
\* whatever its other configuration, fails validate(undefined) and
\* validate(null) with a type error naming its expected kind and a null
\* value.
C4_RequiredRejects ==
  \A id \in DOMAIN heap : \A x \in {Undefined, Null} :
    ~heap[id]._optional =>
      LET o == validate(heap, id, x)
      IN ~o.threw /\ IsTypeErrorNaming(o.v, ExpectedKind(heap[id]))

\* C4 amended: the same, except for an any validator on which
\* allowUndefinedNull() has been called, which accepts undefined and null
\* with the input as value.
C4_RequiredRejectsUnlessAllowed ==
  \A id \in DOMAIN heap : \A x \in {Undefined, Null} :
    ~heap[id]._optional =>
      LET o == validate(heap, id, x)
      IN IF heap[id].cls = "AnyState" /\ heap[id]._allowUndefinedNull
           THEN o = Return(Result(Null, x))
           ELSE ~o.threw /\ IsTypeErrorNaming(o.v, ExpectedKind(heap[id]))

\* C4 witness: a required string validator with a length bound rejected null
\* with the type error of a string.
C4_RequiredStringRejects ==
  /\ ValidateReturned
  /\ Root.cls = "StringState"
  /\ ~Root._optional
  /\ Root._minLength # Null
  /\ last.arg = Null
  /\ IsTypeErrorNaming(last.out.v, "string")

\* on every number validator with both bounds set, min < max
C5_Ordered ==
  \A id \in DOMAIN heap :
    (heap[id].cls = "NumberState" /\ heap[id]._min # Null /\ heap[id]._max # Null)
      => Less(heap[id]._min, heap[id]._max)

\* a min or max call whose argument would make min >= max throws and leaves
\* every instance as it was
C5_Rejects ==
  /\ (/\ last'.op = "min"
      /\ last'.arg.k = "number"
      /\ heap[last'.self]._max # Null
      /\ GreaterEq(last'.arg, heap[last'.self]._max))
       => (last'.out.threw /\ heap' = heap)
  /\ (/\ last'.op = "max"
      /\ last'.arg.k = "number"
      /\ heap[last'.self]._min # Null
      /\ LessEq(last'.arg, heap[last'.self]._min))
       => (last'.out.threw /\ heap' = heap)

\* C5: on a number validator, after any sequence of min and max calls,
\* whenever both bounds are set min < max holds strictly, and a call whose
\* argument would make min >= max throws instead of storing the bound.
C5_MinLessThanMax == [] C5_Ordered /\ [][C5_Rejects]_vars

\* C5 witness: with both bounds set, a max call that would have broken the
\* order threw.
C5_ResetRejected ==
  /\ last.op = "max"
  /\ last.out.threw /\ last.out.name = "Error"
  /\ Root.cls = "NumberState"
  /\ Root._min # Null /\ Root._max # Null

\* the number of keys, elements or characters of a payload
Size(v) ==
  CASE v.k = "object" -> Cardinality(DOMAIN v.fields)
    [] v.k = "array" -> Len(v.items)
    [] v.k = "string" -> Len(v.cs)

\* n lies within the length bounds set on self
WithinLength(self, n) ==
  /\ self._minLength # Null => ~Less(Num(n * 10), self._minLength)
  /\ self._maxLength # Null => ~Greater(Num(n * 10), self._maxLength)

\* the schema entries of an object validator that are validators
IsValidator(validation) == validation.k = "validator"

WellFormed(self) ==
  \A i \in DOMAIN self.validationSchema : IsValidator(self.validationSchema[i].validation)

\* every schema entry and element validator of the tree is a validator
RealTree ==
  \A id \in DOMAIN heap :
    /\ heap[id].cls = "ObjectState" => WellFormed(heap[id])
    /\ heap[id].cls = "ListState" => IsValidator(heap[id].validationSchema)

\* the last call was a validate of an object that reached the fields of the
\* object validator at the root
ReachedFields ==
  /\ last.op = "validate"
  /\ Root.cls = "ObjectState"
  /\ last.arg.k = "object"
  /\ WithinLength(Root, Size(last.arg))

\* the outcome of validating the payload's field against the i-th schema entry
FieldOutcome(i) ==
  validate(heap, Root.validationSchema[i].validation.id,
           GetProp(last.arg, Root.validationSchema[i].key))

\* the last call was a validate of an array that reached the elements of the
\* list validator at the root
ReachedElements ==
  /\ last.op = "validate"
  /\ Root.cls = "ListState"
  /\ last.arg.k = "array"
  /\ ~getType(last.arg).threw
  /\ getType(last.arg).v = "array"
  /\ WithinLength(Root, Size(last.arg))

\* the outcome of validating the element of index i (from 0)
ElementOutcome(i) == validate(heap, Root.validationSchema.id, last.arg.items[i + 1])

Indices == 0..(Len(last.arg.items) - 1)

\* the keys of a mapping slot of a result (none when the slot is null)
KeysOf(slot) == IF slot.k = "object" THEN DOMAIN slot.fields ELSE {}

\* C6 as stated: when an object validator with a schema of validators reaches
\* field validation, a result is returned in which every schema key is in
\* exactly one mapping, the error mapping with the child's error if the child
\* failed and the value mapping with the child's value otherwise; no other
\* key is in a mapping; error and value are the mappings, or null when empty.
C6_FieldsPartitioned ==
  (ReachedFields /\ WellFormed(Root)) =>
    /\ ~last.out.threw
    /\ \A i \in DOMAIN Root.validationSchema : ~FieldOutcome(i).threw
    /\ LET r == last.out.v
           schema == Root.validationSchema
           failed == {i \in DOMAIN schema : FieldOutcome(i).v.error # Null}
           passed == (DOMAIN schema) \ failed
       IN /\ r.error = Null \/ r.error.k = "object"
          /\ r.value = Null \/ r.value.k = "object"
          /\ KeysOf(r.error) = {schema[i].key : i \in failed}
          /\ KeysOf(r.value) = {schema[i].key : i \in passed}
          /\ \A i \in failed : r.error.fields[schema[i].key] = FieldOutcome(i).v.error
          /\ \A i \in passed : r.value.fields[schema[i].key] = FieldOutcome(i).v.value
          /\ (failed = {}) = (r.error = Null)
          /\ (passed = {}) = (r.value = Null)

\* what a list validator stores under a failing index
Wrapper(r) == Obj([error |-> r.error, value |-> r.value])

EntryOf(self, key) ==
  self.validationSchema[CHOOSE i \in DOMAIN self.validationSchema :
                          self.validationSchema[i].key = key].validation

\* the last validate returned an error mapping of the composite at the root
ReturnedMapping ==
  /\ ValidateReturned
  /\ Root.cls \in Composite
  /\ last.out.v.error.k = "object"

\* the outcome of the child validator for the entry of the error mapping
\* stored under key
ChildOutcome(key) ==
  IF Root.cls = "ObjectState"
    THEN validate(heap, EntryOf(Root, key).id, GetProp(last.arg, key))
    ELSE validate(heap, Root.validationSchema.id,
                  last.arg.items[(CHOOSE i \in Indices : IndexKey(i) = key) + 1])

\* C8 as stated: in the error mapping of an object validator and of a list
\* validator alike, the entry stored under a failing field name or index is
\* the child validator's error itself.
C8_UniformEntries ==
  ReturnedMapping =>
    \A key \in DOMAIN last.out.v.error.fields :
      /\ ~ChildOutcome(key).threw
      /\ last.out.v.error.fields[key] = ChildOutcome(key).v.error

\* C8 amended: the entry stored under a failing field name of an object
\* validator is the child's error itself (a message for a leaf child, a
\* mapping for a composite child); the entry stored under a failing index of
\* a list validator is {error: the child's error, value: the child's value}.
C8_EntryShapes ==
  ReturnedMapping =>
    \A key \in DOMAIN last.out.v.error.fields :
      /\ ~ChildOutcome(key).threw
      /\ ChildOutcome(key).v.error # Null
      /\ last.out.v.error.fields[key] =
           IF Root.cls = "ObjectState"
             THEN ChildOutcome(key).v.error
             ELSE Wrapper(ChildOutcome(key).v)

\* C8 witness: an object validator stored under a field the error mapping of
\* its list child, whose own entry is an {error, value} pair around a message.
C8_NestedListError ==
  /\ ReturnedMapping
  /\ Root.cls = "ObjectState"
  /\ \E key \in DOMAIN last.out.v.error.fields :
       LET inner == last.out.v.error.fields[key]
       IN /\ inner.k = "object"
          /\ heap[EntryOf(Root, key).id].cls = "ListState"
          /\ \E index \in DOMAIN inner.fields :
               /\ inner.fields[index].k = "object"
               /\ inner.fields[index].fields.error.k = "string"

\* the first entry of a schema that is not a validator
FirstBad(self) ==
  CHOOSE i \in DOMAIN self.validationSchema :
    /\ ~IsValidator(self.validationSchema[i].validation)
    /\ \A j \in 1..(i - 1) : IsValidator(self.validationSchema[j].validation)

\* o is the configuration error thrown for the schema entry key
IsSchemaError(o, key) ==
  /\ o.threw
  /\ o.name = "TypeError"
  /\ o.about = "Invalid schema for ${key}"
  /\ o.key = key

\* C9 as stated: an object validator whose schema has an entry that is not a
\* validator throws, on every validate call, for every payload and every
\* configuration, a configuration error naming the offending field.
C9_MalformedAlwaysThrows ==
  (last.op = "validate" /\ Root.cls = "ObjectState" /\ ~WellFormed(Root)) =>
    IsSchemaError(last.out, Root.validationSchema[FirstBad(Root)].key)

\* C9 amended: an object validator whose schema has an entry that is not a
\* validator throws on exactly the validate calls that reach field
\* validation (the payload is an object and passes any length bound): it
\* throws the configuration error naming the first such entry in schema
\* order, unless validating the field of an earlier entry threw, which is
\* then the error thrown.  On every other payload the call does what it does
\* with an empty schema: it throws only if classifying the payload throws,
\* and else returns success for undefined or null when optional, else the
\* type error of an object, else the length error.
C9_MalformedThrowsAtFields ==
  (last.op = "validate" /\ Root.cls = "ObjectState" /\ ~WellFormed(Root)) =>
    LET bad == FirstBad(Root)
        throwing == {i \in 1..(bad - 1) : FieldOutcome(i).threw}
        first == CHOOSE i \in throwing : \A j \in throwing : i <= j
    IN IF ReachedFields
         THEN IF throwing = {}
                THEN IsSchemaError(last.out, Root.validationSchema[bad].key)
                ELSE last.out = FieldOutcome(first)
       ELSE /\ last.out = validate(<<[Root EXCEPT !.validationSchema = <<>>]>>, 1, last.arg)
            /\ IF Root._optional /\ last.arg \in {Undefined, Null}
                 THEN last.out = Return(Result(Null, last.arg))
               ELSE IF getType(last.arg).threw
                 THEN last.out = getType(last.arg)
               ELSE IF last.arg.k # "object"
                 THEN ~last.out.threw /\ IsTypeErrorNaming(last.out.v, "object")
               ELSE /\ ~last.out.threw
                    /\ last.out.v.value = Null
                    /\ last.out.v.error.k = "string"
                    /\ last.out.v.error.type = "object"
                    /\ last.out.v.error.bound \in {Root._minLength, Root._maxLength}

\* C9 witness: behind a length bound that the payload passes, and after an
\* entry that is a validator, validate threw the configuration error naming
\* the entry that is none.
C9_SecondEntryThrows ==
  /\ ReachedFields
  /\ ~WellFormed(Root)
  /\ Root._minLength # Null
  /\ FirstBad(Root) = 2
  /\ IsSchemaError(last.out, "b")

\* C10 as stated: in a tree whose schema entries and element validators are
\* all validators, validate returns a result and never throws, for inputs of
\* every kind.
C10_NeverThrows ==
  (last.op = "validate" /\ RealTree) => ~last.out.threw

\* the last call was a validate on the number validator at the root
NumberValidated == last.op = "validate" /\ Root.cls = "NumberState"

\* no coercion mode is set on the number validator at the root
Uncoerced == ~Root._toInteger /\ ~Root._toFloat

\* C11: with min a and max b set on a number validator without a coercion
\* mode, validate(n) of a finite number n succeeds with n iff a <= n <= b;
\* below a it fails with the min message citing a, above b with the max
\* message citing b, each with a null value; a bound of 0 is a bound.
C11_RangeInclusive ==
  (/\ NumberValidated
   /\ Uncoerced
   /\ Root._min # Null /\ Root._max # Null
   /\ last.arg.k = "number") =>
    /\ Root._min.tenths < Root._max.tenths
    /\ IF last.arg.tenths < Root._min.tenths
         THEN last.out =
                Return(Result([k |-> "string",
                               template |-> "${type} can have min value of ${min}.",
                               type |-> "number", bound |-> Root._min], Null))
       ELSE IF last.arg.tenths > Root._max.tenths
         THEN last.out =
                Return(Result([k |-> "string",
                               template |-> "${type} can have max value of ${max}.",
                               type |-> "number", bound |-> Root._max], Null))
       ELSE last.out = Return(Result(Null, last.arg))

\* C11 witness: with min 0 and a max set, a negative number was rejected with
\* the min message.
C11_ZeroMinRejects ==
  /\ NumberValidated
  /\ Uncoerced
  /\ Root._min = Num(0) /\ Root._max # Null
  /\ last.arg = Num(-10)
  /\ ~last.out.threw
  /\ last.out.v.error # Null
  /\ last.out.v.error.bound = Num(0)

\* the number validator at the root is as number() built it, but for optional
DefaultNumber == [Root EXCEPT !._optional = FALSE] = NumberStateNew

\* C12: on a default number validator, a string of decimal digits with at
\* most one '.' and at least one digit succeeds (with the string as value); a
\* string holding a character that is neither a digit nor '.', or holding
\* more than one '.', fails with a type error of a number and a null value.
C12_NumericStrings ==
  (NumberValidated /\ DefaultNumber /\ last.arg.k = "string") =>
    LET cs == last.arg.cs
        dots == Cardinality({i \in DOMAIN cs : cs[i] = "."})
        clean == \A i \in DOMAIN cs : IsDigit(cs[i]) \/ cs[i] = "."
        digits == \E i \in DOMAIN cs : IsDigit(cs[i])
    IN /\ (clean /\ dots <= 1 /\ digits) => last.out = Return(Result(Null, last.arg))
       /\ (~clean \/ dots > 1) =>
            (~last.out.threw /\ IsTypeErrorNaming(last.out.v, "number"))

\* C12 witness: a string that starts with a digit but holds a letter was
\* rejected with the type error.
C12_PrefixRejected ==
  /\ NumberValidated
  /\ DefaultNumber
  /\ last.arg = Str(<<"1", "a">>)
  /\ ~last.out.threw
  /\ IsTypeErrorNaming(last.out.v, "number")

\* the result a number validator returns for Infinity
InfinityError ==
  Return(Result([k |-> "string", template |-> "Expected number but got Infinity.Invalid!"],
                Null))

\* C13: every number validator, at the root or nested, whatever bounds,
\* optional flag and coercion mode are set on it, returns for Infinity an
\* error that is not the type error, and a null value.
C13_InfinityRejected ==
  /\ \A id \in DOMAIN heap :
       heap[id].cls = "NumberState" => validate(heap, id, Infinity) = InfinityError
  /\ (NumberValidated /\ last.arg = Infinity) =>
       /\ last.out = InfinityError
       /\ last.out.v.error.template # "Expected ${expected} but got ${actual}"

\* C13 witness: an optional number validator with a max bound and the integer
\* mode rejected Infinity.
C13_ConfiguredRejects ==
  /\ NumberValidated
  /\ Root._optional /\ Root._toInteger /\ Root._max # Null
  /\ last.arg = Infinity
  /\ last.out = InfinityError

\* on no number validator are the integer mode and the float mode both set
C14_Exclusive ==
  \A id \in DOMAIN heap :
    heap[id].cls = "NumberState" => ~(heap[id]._toInteger /\ heap[id]._toFloat)

\* toInteger on a validator in float mode, and toFloat on a validator in
\* integer mode, throw a configuration error and leave every instance as it
\* was
C14_Rejects ==
  /\ (last'.op = "toInteger" /\ heap[last'.self]._toFloat)
       => (last'.out.threw /\ last'.out.name = "Error" /\ heap' = heap)
  /\ (last'.op = "toFloat" /\ heap[last'.self]._toInteger)
       => (last'.out.threw /\ last'.out.name = "Error" /\ heap' = heap)

\* C14: on a number validator, after any sequence of toInteger and toFloat
\* calls, throwing ones included, the two coercion modes are never both set;
\* toInteger after toFloat and toFloat after toInteger throw a configuration
\* error and leave the mode chosen before in force.
C14_ModesExclusive == [] C14_Exclusive /\ [][C14_Rejects]_vars

\* C14 witness: toFloat was called on a number validator in integer mode and
\* threw; the validator is still in integer mode only.
C14_FloatAfterIntegerRejected ==
  /\ last.op = "toFloat"
  /\ last.out.threw /\ last.out.name = "Error"
  /\ heap[last.self]._toInteger /\ ~heap[last.self]._toFloat

\* the kind of a value by the priority rules: NaN, undefined, null, array,
\* then the primitive kind
KindOf(v) ==
  CASE v.k = "NaN" -> "NaN"
    [] v.k \in {"number", "Infinity", "-Infinity"} -> "number"
    [] OTHER -> v.k

\* C15 as stated: getType returns a kind for every value, never throwing:
\* "NaN" exactly for the number NaN, "undefined" for undefined, "null" for
\* null, "array" for every array, and else the primitive kind, "string" for
\* every string and "symbol" for every symbol.
C15_Classifies ==
  last.op = "validate" => getType(last.arg) = Return(KindOf(last.arg))

\* the last call was a validate of a string on a string validator at the
\* root with both length bounds set, the min bound below the max bound
StringBounded ==
  /\ last.op = "validate"
  /\ Root.cls = "StringState"
  /\ Root._minLength # Null /\ Root._maxLength # Null
  /\ Less(Root._minLength, Root._maxLength)
  /\ last.arg.k = "string"

\* C16 as stated: on a string validator with minLength lo < maxLength hi,
\* validate(s) of a string s succeeds with s iff lo <= length(s) <= hi; a
\* shorter s fails with the minimum-length message citing lo, a longer one
\* with the maximum-length message citing hi.
C16_LengthWindow ==
  StringBounded =>
    IF Len(last.arg.cs) * 10 < Root._minLength.tenths
      THEN last.out =
             Return(Result([k |-> "string",
                            template |-> "${type} must have minimum length of ${minLength}",
                            type |-> "string", bound |-> Root._minLength], Null))
    ELSE IF Len(last.arg.cs) * 10 > Root._maxLength.tenths
      THEN last.out =
             Return(Result([k |-> "string",
                            template |-> "${type} must have maximum length of ${maxLength}",
                            type |-> "string", bound |-> Root._maxLength], Null))
    ELSE last.out = Return(Result(Null, last.arg))

\* the last validate returned a result without error
Succeeded == ValidateReturned /\ last.out.v.error = Null

\* C17: a number validator with neither coercion mode set returns, on every
\* success, the input itself as value: a numeric string stays that string.
C17_OriginalReturned ==
  (NumberValidated /\ Uncoerced /\ Succeeded) => last.out.v.value = last.arg

\* C17 witness: a number validator with a bound and no coercion mode accepted
\* the string "1.5" and returned that string.
C17_StringStaysString ==
  /\ NumberValidated
  /\ Uncoerced
  /\ Root._min # Null \/ Root._max # Null
  /\ last.arg = Str(<<"1", ".", "5">>)
  /\ last.out = Return(Result(Null, Str(<<"1", ".", "5">>)))

\* a validate call leaves every field of every instance of the tree as it was
C18_ConfigurationKept == last'.op = "validate" => heap' = heap

\* validating the same input again, in the state the call left, gives the
\* result the call gave
C18_Repeatable == last.op = "validate" => validate(heap, 1, last.arg) = last.out

ObjectValidated == last.op = "validate" /\ Root.cls = "ObjectState"

\* the length error of an object validator for a payload of n keys outside
\* the bounds set on self: the min bound is tested first
ObjectLengthError(self, n) ==
  IF self._minLength # Null /\ Less(Num(n * 10), self._minLength)
    THEN Result([k |-> "string",
                 template |-> "${type} must have minimum length of ${minLength}",
                 type |-> "object", bound |-> self._minLength], Null)
    ELSE Result([k |-> "string",
                 template |-> "${type} must have maximum length of ${maxLength}",
                 type |-> "object", bound |-> self._maxLength], Null)

\* C19 as stated: an object validator first returns success for undefined or
\* null when optional; then returns the type error of an object, with a null
\* value, for every payload that is not an object (arrays and null included);
\* then returns a length error, with a null value, when the number of keys of
\* the payload (keys outside the schema included) is outside the bounds; and
\* only then validates the fields.
C19_CheckOrder ==
  ObjectValidated =>
    IF Root._optional /\ last.arg \in {Undefined, Null}
      THEN last.out = Return(Result(Null, last.arg))
    ELSE IF last.arg.k # "object"
      THEN ~last.out.threw /\ IsTypeErrorNaming(last.out.v, "object")
    ELSE IF ~WithinLength(Root, Cardinality(DOMAIN last.arg.fields))
      THEN last.out = Return(ObjectLengthError(Root, Cardinality(DOMAIN last.arg.fields)))
    ELSE last.out = ObjectFields(heap, Root.validationSchema, 1, last.arg, <<>>, <<>>)

\* the last validate succeeded on a number or a string, on a number validator
\* at the root with a bound and a coercion mode set
CoercedInRange ==
  /\ NumberValidated
  /\ Succeeded
  /\ Root._toInteger \/ Root._toFloat
  /\ Root._min # Null \/ Root._max # Null
  /\ last.arg.k \in {"number", "-Infinity", "string"}

\* v lies within the bounds set on the number validator self
WithinRange(self, v) ==
  /\ self._min # Null => NumLessEq(self._min, v)
  /\ self._max # Null => NumLessEq(v, self._max)

\* C20 as stated: whenever a number validator with a bound and a coercion
\* mode succeeds on a number or a numeric string, the coerced value it
\* returns lies within the bounds.
C20_CoercedWithinBounds ==
  CoercedInRange => WithinRange(Root, last.out.v.value)

\* the coercion keeps a bound: the mode rounds to integers and the bound is
\* an integer, or the mode is toFloat with at least one decimal place, which
\* every number of the model has
KeptBound(self, bound) ==
  \/ bound.tenths % 10 = 0
  \/ self._toFloat /\ self._decimalPlaces.tenths >= 10

\* C20 amended: the bounds are tested on the parsed input, before the
\* coercion.  On success the parsed input lies within the bounds and the
\* value is its rounding: to the nearest integer, a half going up, under
\* toInteger; to p decimal places under toFloat(p).  The value lies within
\* every bound that is itself such a rounded number (an integer under
\* toInteger and toFloat(0)); it can pass a bound that is not.
C20_RoundedAfterRangeCheck ==
  CoercedInRange =>
    LET InRange(parsed, value) ==
          /\ WithinRange(Root, parsed)
          /\ IF parsed.k # "number" THEN value = parsed
             ELSE /\ value.k = "number"
                  /\ IF Root._toInteger
                       THEN /\ value.tenths % 10 = 0
                            /\ parsed.tenths - value.tenths \in -5..4
                     ELSE IF Root._decimalPlaces.tenths < 10
                       THEN /\ value.tenths % 10 = 0
                            /\ parsed.tenths - value.tenths \in -5..5
                     ELSE value = parsed
          /\ (Root._min # Null /\ KeptBound(Root, Root._min)) => NumLessEq(Root._min, value)
          /\ (Root._max # Null /\ KeptBound(Root, Root._max)) => NumLessEq(value, Root._max)
    IN InRange(ParseFloat(last.arg).v, last.out.v.value)

\* C20 witness: under toInteger, an input within a max bound that has a
\* fraction was rounded past the bound.
C20_RoundedPastMax ==
  /\ CoercedInRange
  /\ Root._toInteger
  /\ Root._max # Null
  /\ NumLess(Root._max, last.out.v.value)

\* the configuration calls of the validators
ConfigurationOps ==
  {"optional", "allowUndefinedNull", "min", "max", "minLength", "maxLength",
   "toInteger", "toFloat"}

\* a configuration call that throws leaves every instance as it was; validate
\* reads nothing but the instances and its payload, so it answers after the
\* call as it did before it
C21_ThrowKeepsFields ==
  (last'.op \in ConfigurationOps /\ last'.out.threw) => heap' = heap

\* C21: a configuration call that throws (min, max, minLength, maxLength on a
\* non-number argument or an ordering violation, toInteger or toFloat on a
\* conflicting mode or a non-number precision) leaves every configuration
\* field of the validator as it was before the call, so later validate calls
\* behave as if the call had not been made.
C21_FailedCallIsVoid == [][C21_ThrowKeepsFields]_vars

\* C21 witness: on a number validator with a min bound, a max call that
\* breaks the order threw, and the validator has no max bound.
C21_MaxRejectedUnset ==
  /\ last.op = "max"
  /\ last.arg.k = "number"
  /\ last.out.threw /\ last.out.name = "Error"
  /\ heap[last.self]._min # Null
  /\ heap[last.self]._max = Null

=============================================================================
